---- MODULE Spec2Model ----
(***************************************************************************)
(* Model of the buffered database pipeline of aioscrapy/pipelines/db.py:   *)
(* ItemCache (the per-group row buffers), DBPipelineBase (lock, accept,    *)
(* periodic sweep, shutdown drain) and MysqlPipeline._save (the flush with *)
(* its per-alias commit / rollback).                                       *)
(*                                                                         *)
(* Every coroutine is a task; a step of the model runs a task from one     *)
(* suspension point (an await that really suspends) to the next, as the    *)
(* single-threaded event loop does.                                        *)
(***************************************************************************)
EXTENDS Integers, Sequences, FiniteSets, TLC

\* ------------------------------------------------------------------ bounds
\* number of process_item calls made by the producer
MaxItems == 3

\* SAVE_CACHE_NUM, the flush threshold (settings value, default 500)
cache_num == 2

\* ------------------------------------------------------------------ tasks
AcceptName == <<"p1", "p2", "p3", "p4", "p5", "p6">>
Accepts == {AcceptName[i] : i \in 1..MaxItems}
Loops == {"sweep", "close"}
Tasks == Accepts \cup Loops

\* ------------------------------------------------------------------ items
\* An item is the dict handed to process_item: the four control attributes
\* (a missing attribute is Absent / AbsentList) and the ordered column names.
\* The values of its columns are named after the call that brought it.
Absent == "<absent>"
None == "<None>"
AbsentList == <<"<absent>">>

\* a save_db_alias that is a str and not a list
Str(alias) == <<"<str>", alias>>

IsStr(v) == Len(v) = 2 /\ v[1] = "<str>"

Item(table, insert_type, update_fields, db_alias, cols) ==
    [save_table_name |-> table, save_insert_type |-> insert_type,
     save_update_fields |-> update_fields, save_db_alias |-> db_alias, cols |-> cols]

Items ==
    { Item("t", Absent, AbsentList, <<"a", "b">>, <<"ab", "c">>),
      Item("t", Absent, AbsentList, <<"b">>, <<"ab", "c">>),
      Item("u", "insert", <<>>, Str("b"), <<"a">>),
      Item("t", Absent, <<"c">>, <<"b">>, <<"ab">>),
      Item("t", Absent, AbsentList, <<"b">>, <<"a", "bc">>),
      Item("t", "replace", AbsentList, <<"b">>, <<"ab", "c">>),
      Item(None, Absent, AbsentList, <<"b">>, <<"a">>),
      Item(Absent, Absent, AbsentList, <<"b">>, <<"a">>) }

NoItem == Item("", "", <<>>, <<>>, <<>>)

\* results of one await on the connection: it returns or it raises
Outcomes == {"ok", "raise"}

VARIABLES
    item_cache,      \* ItemCache.item_cache: cache_key -> rows (created keys only)
    cache_keys,      \* insertion order of item_cache (dict iteration order)
    db_alias_cache,  \* ItemCache.db_alias_cache: cache_key -> alias list
    table_cache,     \* ItemCache.table_cache: cache_key -> table name
    fields_cache,    \* ItemCache.fields_cache: cache_key -> field list
    insert_sql_cache, \* ItemCache.insert_sql_cache: cache_key -> statement
    locked,          \* asyncio.Lock._locked
    waiters,         \* asyncio.Lock._waiters, FIFO
    pc,              \* where each task is suspended
    must_cancel,     \* Task.cancel() was called on the periodic task
    fl,              \* the _save call each task is inside
    pos,             \* index in item_cache.items() of the loop in close / save_interval
    conns,           \* the scoped connections held: [task, alias]
    ptasks,          \* number of periodic tasks created and not yet finished
    item,            \* argument of each process_item call, as it was passed
    returned,        \* the item each process_item call returned
    cache_count,     \* value parse_item_to_cache returned to each call
    nAccepts,        \* number of process_item calls made so far
    appended,        \* history: <<cache_key, row>> appended by parse_item_to_cache
    admitted,        \* history: the rows in the order they were appended
    parsed,          \* history: the calls in the order they computed a cache_key
    built,           \* the list each call built for its row (the row's values)
    flushed,         \* history: the finished _save calls
    pre_close,       \* history: process_item calls made before close_spider
    pre_wait         \* history: those of pre_close that were waiting for the lock

vars == <<item_cache, cache_keys, db_alias_cache, table_cache, fields_cache,
          insert_sql_cache, locked, waiters, pc, must_cancel, fl, pos, conns, ptasks,
          item, returned, cache_count, nAccepts, appended, admitted, parsed,
          built, flushed, pre_close, pre_wait>>

\* the dicts of ItemCache that are written when a group is created
metaVars == <<cache_keys, db_alias_cache, table_cache, fields_cache, insert_sql_cache>>

\* what belongs to the calls of process_item and to the history
callVars == <<item, nAccepts, pre_close, pre_wait>>

NoFlush == [key |-> "", ai |-> 0, stage |-> "none", res |-> <<>>, rows |-> <<>>, err |-> ""]

RECURSIVE SeqToSet(_)
SeqToSet(s) == IF s = <<>> THEN {} ELSE {Head(s)} \cup SeqToSet(Tail(s))

RemoveFrom(s, x) == SelectSeq(s, LAMBDA y : y # x)

\* ------------------------------------------------------------------ Init
Init ==
    /\ item_cache = <<>>
    /\ cache_keys = <<>>
    /\ db_alias_cache = <<>>
    /\ table_cache = <<>>
    /\ fields_cache = <<>>
    /\ insert_sql_cache = <<>>
    /\ locked = FALSE
    /\ waiters = <<>>
    /\ pc = [t \in Tasks |-> IF t = "sweep" THEN "none" ELSE "idle"]
    /\ must_cancel = FALSE
    /\ fl = [t \in Tasks |-> NoFlush]
    /\ pos = [t \in Loops |-> 0]
    /\ conns = {}
    /\ ptasks = 0
    /\ item = [t \in Accepts |-> NoItem]
    /\ returned = [t \in Accepts |-> NoItem]
    /\ cache_count = [t \in Accepts |-> 0]
    /\ nAccepts = 0
    /\ appended = {}
    /\ admitted = <<>>
    /\ parsed = <<>>
    /\ built = [t \in Accepts |-> <<>>]
    /\ flushed = {}
    /\ pre_close = {}
    /\ pre_wait = {}

\* ------------------------------------------------------------------ SqlFormat
RECURSIVE JoinSep(_, _)
\* sep.join(s)
JoinSep(s, sep) ==
    IF s = <<>> THEN ""
    ELSE IF Len(s) = 1 THEN s[1]
    ELSE s[1] \o sep \o JoinSep(Tail(s), sep)

\* ','.join(['%s'] * len(fields))
Placeholder(fields) == JoinSep([i \in 1..Len(fields) |-> "%s"], ",")

mysql_insert(table, fields) ==
    "INSERT INTO " \o table \o " (" \o JoinSep(fields, ",") \o ") VALUES ("
        \o Placeholder(fields) \o ")"

mysql_ignore_insert(table, fields) ==
    "INSERT IGNORE INTO " \o table \o " (" \o JoinSep(fields, ",") \o ") VALUES ("
        \o Placeholder(fields) \o ")"

mysql_update_insert(table, fields, update_fields) ==
    LET upd == IF update_fields = <<>> THEN fields ELSE update_fields
    IN  "INSERT INTO " \o table \o " (" \o JoinSep(fields, ",") \o ") VALUES ("
            \o Placeholder(fields) \o ") ON DUPLICATE KEY UPDATE "
            \o JoinSep([i \in 1..Len(upd) |-> upd[i] \o " = VALUES(" \o upd[i] \o ")"], ",")

\* getattr(self, f'{db_type}_{insert_type}') finds a method (db_type is mysql)
Supported(insert_type) == insert_type \in {"insert", "ignore_insert", "update_insert"}

\* get_sql(table_name, fields, update_fields, db_type='mysql', insert_type=...)
get_sql(table, fields, update_fields, insert_type) ==
    CASE insert_type = "insert" -> mysql_insert(table, fields)
      [] insert_type = "ignore_insert" -> mysql_ignore_insert(table, fields)
      [] OTHER -> mysql_update_insert(table, fields, update_fields)

\* ------------------------------------------------------------------ the pops
\* a parse_item_to_cache without its check for None
TableMissingOnlyAbsent(it) == it.save_table_name = Absent

\* item.pop('save_table_name') raises KeyError, or yields None and the
\* explicit check raises
TableMissing(it) == it.save_table_name \in {Absent, None}

\* item.pop('save_insert_type', 'insert')
InsertType(it) == IF it.save_insert_type = Absent THEN "insert" ELSE it.save_insert_type

\* item.pop('save_update_fields', [])
UpdateFields(it) ==
    IF it.save_update_fields = AbsentList THEN <<>> ELSE it.save_update_fields

\* item.pop('save_db_alias', ['default'])
DbAlias(it) ==
    IF it.save_db_alias = AbsentList THEN <<"default">>
    ELSE IF IsStr(it.save_db_alias) THEN <<it.save_db_alias[2]>>   \* isinstance(..., str)
    ELSE it.save_db_alias

\* fields = list(item.keys()) after the pops
Fields(it) == it.cols

\* a cache_key that the alias list is part of
CacheKeyWithAlias(it) ==
    JoinSep(Fields(it) \o UpdateFields(it) \o DbAlias(it), "") \o InsertType(it)
        \o it.save_table_name

\* cache_key = ''.join(fields + update_fields) + insert_type + table_name
CacheKey(it) ==
    JoinSep(Fields(it) \o UpdateFields(it), "") \o InsertType(it) \o it.save_table_name

\* the dict after parse_item_to_cache: pop removes the attributes in place; a
\* missing table stops the function at its first pop, a None table after it
Popped(it) ==
    IF it.save_table_name = Absent THEN it
    ELSE IF it.save_table_name = None THEN [it EXCEPT !.save_table_name = Absent]
    ELSE [it EXCEPT !.save_table_name = Absent, !.save_insert_type = Absent,
                    !.save_update_fields = AbsentList, !.save_db_alias = AbsentList]

\* the cache keys the items of the model produce
Keys == {CacheKey(it) : it \in {i \in Items : ~TableMissing(i)}}

\* ------------------------------------------------------------------ asyncio.Lock
\* a lock that excludes nobody
CanAcquireAlways == TRUE

\* a lock that lets a newcomer pass the tasks already waiting
CanAcquireBarging == ~locked

\* Lock.acquire takes the lock at once only when it is free and nobody waits
CanAcquire == ~locked /\ waiters = <<>>

\* a waiter is woken in FIFO order once the lock is released
CanResume(t) == ~locked /\ waiters # <<>> /\ Head(waiters) = t

\* a task on which cancel() was called runs nothing but its CancelledError
Runnable(t) == ~(t = "sweep" /\ must_cancel)

\* ------------------------------------------------------------------ ItemCache
\* a parse_item_to_cache that creates the group at every record
IsNewKeyAlways(key) == TRUE

\* fields_cache.get(cache_key) is None
IsNewKey(key) == key \notin DOMAIN fields_cache

\* a row that is put in front of the buffer
AppendRowInFront(rows, row) == <<row>> \o rows

\* a buffer that is replaced instead of appended to
AppendRowReplaces(rows, row) == <<row>>

\* self.item_cache[cache_key].append(row)
AppendRow(rows, row) == Append(rows, row)

\* item_cache after the append of parse_item_to_cache(it); the row of call t
\* is t itself
CacheAfter(it, row) ==
    IF IsNewKey(CacheKey(it))
    THEN (CacheKey(it) :> AppendRow(<<>>, row)) @@ item_cache
    ELSE [item_cache EXCEPT ![CacheKey(it)] = AppendRow(@, row)]

\* a save_item without its threshold check
ThresholdNever(n) == FALSE

\* a threshold check that is off by one
ThresholdExceeded(n) == n > cache_num

\* if cache_count >= self.cache_num
ThresholdReached(n) == n >= cache_num

\* a buffer cleared after the loop instead of in a finally clause
ClearCacheUnlessRaised(ic, key, end) ==
    IF end = "returned" THEN [ic EXCEPT ![key] = <<>>] ELSE ic

\* finally: self.cache.item_cache[cache_key] = []   (end: how _save ended)
ClearCache(ic, key, end) == [ic EXCEPT ![key] = <<>>]

\* next entry of item_cache.items() after position from whose rows are non-empty
NextPos(ic, from) ==
    LET S == {i \in (from + 1)..Len(cache_keys) : ic[cache_keys[i]] # <<>>}
    IN  IF S = {} THEN 0 ELSE CHOOSE i \in S : \A j \in S : i <= j

\* ------------------------------------------------------------------ _save
\* _save(cache_key) up to its first await: the connection of the first alias
FlushStart(key) ==
    [key |-> key, ai |-> 1, stage |-> "acq", res |-> <<>>, rows |-> <<>>, err |-> ""]

\* a periodic task that goes on sweeping without sleeping first
AfterWithoutSleep(t, end) ==
    IF t = "sweep"
    THEN CASE end = "returned" -> "save"
           [] end = "raised" -> "dead"
           [] OTHER -> "cancelled"
    ELSE IF end = "returned" THEN "done" ELSE "raised"

\* where a task goes when the _save it called ended and nothing is left to do
After(t, end) ==
    IF t = "sweep"
    THEN CASE end = "returned" -> "sleep"       \* create_task(save_interval(...))
           [] end = "raised" -> "dead"          \* the exception ends the task
           [] OTHER -> "cancelled"
    ELSE IF end = "returned" THEN "done" ELSE "raised"

\* periodic tasks a task creates when it ends: save_interval's last statement,
\* reached only when the sweep returned
Successors(t, end) == IF t = "sweep" /\ end = "returned" THEN 1 ELSE 0

\* a task ends: the periodic tasks that are left
TasksAfter(t, end) == IF t = "sweep" THEN ptasks - 1 + Successors(t, end) ELSE ptasks

\* process_item returns the dict it was given, as parse_item_to_cache left it
ReturnedAfter(t, end) ==
    IF t \in Accepts /\ end = "returned"
    THEN [returned EXCEPT ![t] = Popped(item[t])]
    ELSE returned

\* _save ends (returns, raises or is cancelled): the finally clause clears the
\* buffer, then the caller goes on without suspending: the loops of close and
\* save_interval call _save for the next non-empty group, everything else
\* releases the lock
FlushEnd(t, res, end) ==
    LET key == fl[t].key
        ic == ClearCache(item_cache, key, end)
        rec == [key |-> key, by |-> t, end |-> end, res |-> res, batch |-> item_cache[key]]
        np == IF t \in Loops /\ end = "returned" THEN NextPos(ic, pos[t]) ELSE 0
    IN  /\ item_cache' = ic
        /\ flushed' = flushed \cup {rec}
        /\ IF np # 0
           THEN /\ fl' = [fl EXCEPT ![t] = FlushStart(cache_keys[np])]
                /\ pos' = [pos EXCEPT ![t] = np]
                /\ UNCHANGED <<pc, locked, ptasks, returned>>
           ELSE /\ fl' = [fl EXCEPT ![t] = NoFlush]
                /\ pos' = IF t \in Loops THEN [pos EXCEPT ![t] = 0] ELSE pos
                /\ pc' = [pc EXCEPT ![t] = After(t, end)]
                /\ locked' = FALSE
                /\ ptasks' = TasksAfter(t, end)
                /\ returned' = ReturnedAfter(t, end)
        /\ UNCHANGED <<metaVars, cache_count, appended, admitted, parsed, built>>

\* the connection of the alias a task is at
ConnOf(t) == [task |-> t, alias |-> db_alias_cache[fl[t].key][fl[t].ai]]

\* what is recorded of one alias: how it ended, at which await, and the rows
\* executemany was called with
AliasResult(t, out) ==
    [alias |-> db_alias_cache[fl[t].key][fl[t].ai], out |-> out, at |-> fl[t].stage,
     rows |-> fl[t].rows]

\* a loop that goes on with the alias after the next one
NextAliasSkips(ai) == ai + 2

\* for alias in self.cache.db_alias_cache[cache_key]: the next alias
NextAlias(ai) == ai + 1

\* leaving the async with block gives the connection back to the pool manager
Release(t) == conns \ {ConnOf(t)}

\* one alias is finished (committed or rolled back): the async with block is
\* left, the connection released; then the next alias, or return
AliasDone(t, out) ==
    LET f == fl[t]
        aliases == db_alias_cache[f.key]
        res == Append(f.res, AliasResult(t, out))
    IN  /\ conns' = Release(t)
        /\ IF NextAlias(f.ai) <= Len(aliases)
           THEN /\ fl' = [fl EXCEPT ![t] = [f EXCEPT !.ai = NextAlias(f.ai), !.stage = "acq",
                                                     !.res = res, !.rows = <<>>, !.err = ""]]
                /\ UNCHANGED <<item_cache, flushed, pos, pc, locked, metaVars,
                               cache_count, appended, admitted, parsed, built, ptasks, returned>>
           ELSE FlushEnd(t, res, "returned")

\* an exception leaves _save at the current alias; a connection that was
\* acquired is released by the async with block
AliasRaises(t, out) ==
    /\ conns' = Release(t)
    /\ FlushEnd(t, Append(fl[t].res, AliasResult(t, out)),
                IF out = "cancelled" THEN "cancelled" ELSE "raised")

\* ------------------------------------------------------------------ DBPipelineBase
\* an exception leaves save_item before anything is appended: the lock is
\* released and process_item raises
AcceptRaises(t) ==
    /\ pc' = [pc EXCEPT ![t] = "raised"]
    /\ locked' = FALSE
    /\ UNCHANGED <<fl, cache_count, appended, admitted, built, returned>>

\* the block under `if self.fields_cache.get(cache_key) is None` up to get_sql
CreateGroup(it) ==
    LET key == CacheKey(it)
    IN  /\ cache_keys' = Append(cache_keys, key)
        /\ db_alias_cache' = (key :> DbAlias(it)) @@ db_alias_cache
        /\ table_cache' = (key :> it.save_table_name) @@ table_cache
        /\ fields_cache' = (key :> Fields(it)) @@ fields_cache

\* self.fields_cache[cache_key] when the row is built: the field list of the
\* group, which is the record's own only when the record created the group
GroupFields(it) ==
    IF IsNewKey(CacheKey(it)) THEN Fields(it) ELSE fields_cache[CacheKey(it)]

\* item[field] finds every field of the list (no KeyError)
HasFields(it, fields) == \A j \in DOMAIN fields : fields[j] \in SeqToSet(Fields(it))

\* item[field] of the record of call t
Value(t, field) == <<t, field>>

\* a row built from the record's own keys
BuildRowFromItem(it, t, fields) == [j \in DOMAIN Fields(it) |-> Value(t, Fields(it)[j])]

\* [item[field] for field in self.fields_cache[cache_key]]
BuildRow(it, t, fields) == [j \in DOMAIN fields |-> Value(t, fields[j])]

\* save_item with the lock just taken: parse_item_to_cache, then the threshold
\* check; below the threshold the lock is released without suspending
EnterAccept(t, it) ==
    LET key == CacheKey(it)
        new == IsNewKey(key)
        ic == CacheAfter(it, t)
        n == Len(ic[key])
    IN  /\ UNCHANGED <<pos, flushed, ptasks>>
        /\ CASE TableMissing(it) ->
                  /\ AcceptRaises(t)
                  /\ UNCHANGED <<item_cache, metaVars, parsed>>
             [] ~TableMissing(it) /\ new /\ ~Supported(InsertType(it)) ->
                  \* get_sql raises after the other dicts were written
                  /\ AcceptRaises(t)
                  /\ CreateGroup(it)
                  /\ item_cache' = (key :> <<>>) @@ item_cache
                  /\ parsed' = Append(parsed, t)
                  /\ UNCHANGED insert_sql_cache
             [] ~TableMissing(it) /\ ~new /\ ~HasFields(it, GroupFields(it)) ->
                  \* item[field] raises KeyError while the row is built
                  /\ AcceptRaises(t)
                  /\ parsed' = Append(parsed, t)
                  /\ UNCHANGED <<item_cache, metaVars>>
             [] OTHER ->
                  /\ item_cache' = ic
                  /\ built' = [built EXCEPT ![t] = BuildRow(it, t, GroupFields(it))]
                  /\ parsed' = Append(parsed, t)
                  /\ IF new
                     THEN /\ CreateGroup(it)
                          /\ insert_sql_cache' =
                                 (key :> get_sql(it.save_table_name, Fields(it),
                                                 UpdateFields(it), InsertType(it)))
                                     @@ insert_sql_cache
                     ELSE UNCHANGED metaVars
                  /\ cache_count' = [cache_count EXCEPT ![t] = n]
                  /\ appended' = appended \cup {<<key, t>>}
                  /\ admitted' = Append(admitted, t)
                  /\ IF ThresholdReached(n)
                     THEN /\ fl' = [fl EXCEPT ![t] = FlushStart(key)]
                          /\ pc' = [pc EXCEPT ![t] = "save"]
                          /\ locked' = TRUE
                          /\ UNCHANGED returned
                     ELSE /\ fl' = fl
                          /\ pc' = [pc EXCEPT ![t] = "done"]
                          /\ locked' = FALSE
                          /\ returned' = [returned EXCEPT ![t] = Popped(it)]

\* close / save_interval with the lock just taken: the loop over
\* item_cache.items() up to the first _save, or to the end of the loop
EnterLoop(t) ==
    LET np == NextPos(item_cache, 0)
    IN  /\ IF np # 0
           THEN /\ fl' = [fl EXCEPT ![t] = FlushStart(cache_keys[np])]
                /\ pos' = [pos EXCEPT ![t] = np]
                /\ pc' = [pc EXCEPT ![t] = "save"]
                /\ locked' = TRUE
                /\ UNCHANGED ptasks
           ELSE /\ fl' = fl
                /\ pos' = pos
                /\ pc' = [pc EXCEPT ![t] = After(t, "returned")]
                /\ locked' = FALSE
                /\ ptasks' = TasksAfter(t, "returned")
        /\ UNCHANGED <<item_cache, metaVars, cache_count, appended, admitted, parsed, built, flushed,
                       returned>>

\* async with self.lock when the lock cannot be taken at once
Enqueue(t) ==
    /\ waiters' = Append(waiters, t)
    /\ pc' = [pc EXCEPT ![t] = "wait"]
    /\ UNCHANGED <<item_cache, metaVars, cache_count, appended, admitted, parsed, built, flushed, fl,
                   pos, locked, ptasks, returned>>

\* open_spider: the first periodic task is created and sleeps
OpenSpider ==
    /\ pc["sweep"] = "none"
    /\ pc' = [pc EXCEPT !["sweep"] = "sleep"]
    /\ ptasks' = ptasks + 1
    /\ UNCHANGED <<item_cache, metaVars, locked, waiters, must_cancel, fl, pos, conns,
                   returned, cache_count, appended, admitted, parsed, built, flushed, callVars>>

\* process_item(it) is called: save_item runs up to its first suspension
SaveItem(it) ==
    LET t == AcceptName[nAccepts + 1]
    IN  /\ pc["sweep"] # "none"
        /\ nAccepts < MaxItems
        /\ nAccepts' = nAccepts + 1
        /\ item' = [item EXCEPT ![t] = it]
        /\ IF CanAcquire
           THEN EnterAccept(t, it) /\ waiters' = waiters
           ELSE Enqueue(t)
        /\ UNCHANGED <<must_cancel, pre_close, pre_wait, conns>>

\* a task waiting for the lock gets it
Resume(t) ==
    /\ pc[t] = "wait"
    /\ Runnable(t)
    /\ CanResume(t)
    /\ waiters' = Tail(waiters)
    /\ IF t \in Accepts THEN EnterAccept(t, item[t]) ELSE EnterLoop(t)
    /\ UNCHANGED <<must_cancel, callVars, conns>>

\* save_interval: asyncio.sleep(interval) is over
TimerFires ==
    /\ pc["sweep"] = "sleep"
    /\ Runnable("sweep")
    /\ IF CanAcquire
       THEN EnterLoop("sweep") /\ waiters' = waiters
       ELSE Enqueue("sweep")
    /\ UNCHANGED <<must_cancel, callVars, conns>>

\* close_spider: cancel() on the periodic task, then close() up to its first
\* suspension
CloseSpider ==
    /\ pc["close"] = "idle"
    /\ pc["sweep"] # "none"
    /\ must_cancel' = (pc["sweep"] \in {"sleep", "wait", "save"})
    /\ pre_close' = {t \in Accepts : pc[t] # "idle"}
    /\ pre_wait' = {t \in Accepts : pc[t] = "wait"}
    /\ IF CanAcquire
       THEN EnterLoop("close") /\ waiters' = waiters
       ELSE Enqueue("close")
    /\ UNCHANGED <<item, nAccepts, conns>>

\* the periodic task receives its CancelledError where it is suspended
Cancelled ==
    /\ must_cancel
    /\ must_cancel' = FALSE
    /\ CASE pc["sweep"] = "save" ->
              /\ AliasRaises("sweep", "cancelled")
              /\ UNCHANGED waiters
         [] pc["sweep"] = "wait" ->
              /\ waiters' = RemoveFrom(waiters, "sweep")
              /\ pc' = [pc EXCEPT !["sweep"] = "cancelled"]
              /\ ptasks' = TasksAfter("sweep", "cancelled")
              /\ UNCHANGED <<item_cache, metaVars, cache_count, appended, admitted, parsed, built,
                             flushed, fl, pos, locked, conns, returned>>
         [] OTHER ->
              /\ pc' = [pc EXCEPT !["sweep"] = "cancelled"]
              /\ ptasks' = TasksAfter("sweep", "cancelled")
              /\ UNCHANGED <<item_cache, metaVars, cache_count, appended, admitted, parsed, built,
                             flushed, fl, pos, locked, waiters, conns, returned>>
    /\ UNCHANGED callVars

\* ------------------------------------------------------------------ MysqlPipeline._save
InSave(t, stage) == pc[t] = "save" /\ Runnable(t) /\ fl[t].stage = stage

StageTo(t, stage, rows, err) ==
    /\ fl' = [fl EXCEPT ![t] = [@ EXCEPT !.stage = stage, !.rows = rows, !.err = err]]
    /\ UNCHANGED <<item_cache, flushed, pos, pc, locked, metaVars, cache_count, appended,
                   admitted, parsed, built, ptasks, returned>>

\* async with get_manager(...).get(alias, ping=True): entered, and executemany
\* is called with the statement and the rows of the buffer (a group without a
\* statement raises KeyError there, inside the try); or the acquisition raises
GetConn(t, o) ==
    /\ InSave(t, "acq")
    /\ IF o = "ok"
       THEN /\ conns' = conns \cup {ConnOf(t)}
            /\ IF fl[t].key \in DOMAIN insert_sql_cache
               THEN StageTo(t, "exec", item_cache[fl[t].key], "")
               ELSE StageTo(t, "rollback", <<>>, "sql_err")
       ELSE AliasRaises(t, "acq_err")
    /\ UNCHANGED <<waiters, must_cancel, callVars>>

\* await cursor.executemany(...): done, or except Exception
ExecuteMany(t, o) ==
    /\ InSave(t, "exec")
    /\ IF o = "ok"
       THEN StageTo(t, "commit", fl[t].rows, "")
       ELSE StageTo(t, "rollback", fl[t].rows, "exec_err")
    /\ UNCHANGED <<waiters, must_cancel, callVars, conns>>

\* await conn.commit(): done, or except Exception
Commit(t, o) ==
    /\ InSave(t, "commit")
    /\ IF o = "ok"
       THEN AliasDone(t, "ok")
       ELSE /\ StageTo(t, "rollback", fl[t].rows, "commit_err")
            /\ UNCHANGED conns
    /\ UNCHANGED <<waiters, must_cancel, callVars>>

\* await conn.rollback() in the except clause: done, or it raises in turn
Rollback(t, o) ==
    /\ InSave(t, "rollback")
    /\ IF o = "ok"
       THEN AliasDone(t, fl[t].err)
       ELSE AliasRaises(t, "rollback_err")
    /\ UNCHANGED <<waiters, must_cancel, callVars>>

\* ------------------------------------------------------------------ Next
Next ==
    \/ OpenSpider
    \/ \E it \in Items : SaveItem(it)
    \/ \E t \in Tasks : Resume(t)
    \/ TimerFires
    \/ CloseSpider
    \/ Cancelled
    \/ \E t \in Tasks, o \in Outcomes : GetConn(t, o)
    \/ \E t \in Tasks, o \in Outcomes : ExecuteMany(t, o)
    \/ \E t \in Tasks, o \in Outcomes : Commit(t, o)
    \/ \E t \in Tasks, o \in Outcomes : Rollback(t, o)

Spec == Init /\ [][Next]_vars

\* the event loop runs every task that is ready: an expired sleep, a woken lock
\* waiter, a delivered cancellation, and every await on a connection ends
Fairness ==
    /\ WF_vars(TimerFires)
    /\ WF_vars(Cancelled)
    /\ \A t \in Tasks :
           /\ WF_vars(Resume(t))
           /\ WF_vars(\E o \in Outcomes : GetConn(t, o))
           /\ WF_vars(\E o \in Outcomes : ExecuteMany(t, o))
           /\ WF_vars(\E o \in Outcomes : Commit(t, o))
           /\ WF_vars(\E o \in Outcomes : Rollback(t, o))

FairSpec == Spec /\ Fairness

\* ------------------------------------------------------------------ properties
Buffer(k) == IF k \in DOMAIN item_cache THEN item_cache[k] ELSE <<>>

NoDuplicates(s) == \A i, j \in DOMAIN s : s[i] = s[j] => i = j

AppendedTo(k) == {r \in Accepts : <<k, r>> \in appended}

\* a writer call is successful when every alias of the group committed
Successful(f) ==
    /\ f.end = "returned"
    /\ \A i \in DOMAIN f.res : f.res[i].out = "ok"

RowsOf(k, fs) == UNION {SeqToSet(f.batch) : f \in {g \in fs : g.key = k}}

InSaveTasks == {t \in Tasks : pc[t] = "save"}

\* C1: no row is lost or written twice. For every group the rows of the
\* successful writer calls are the rows appended to the group, minus the rows
\* of the failed flushes and the rows still buffered; no row is in two
\* flushes, in a flush and in the buffer, or twice in one of them; and a
\* successful call handed the whole batch to every alias.
C1_NoRowLostOrTwice ==
    \A k \in Keys :
        LET ok == {f \in flushed : Successful(f)}
            failed == flushed \ ok
        IN  /\ RowsOf(k, ok)
                 = AppendedTo(k) \ (RowsOf(k, failed) \cup SeqToSet(Buffer(k)))
            /\ RowsOf(k, flushed) \cup SeqToSet(Buffer(k)) = AppendedTo(k)
            /\ NoDuplicates(Buffer(k))
            /\ \A f \in flushed :
                   /\ NoDuplicates(f.batch)
                   /\ f.key = k => SeqToSet(f.batch) \cap SeqToSet(Buffer(k)) = {}
                   /\ \A g \in flushed :
                          f # g /\ g.key = f.key
                              => SeqToSet(f.batch) \cap SeqToSet(g.batch) = {}
                   /\ Successful(f) => \A i \in DOMAIN f.res : f.res[i].rows = f.batch

C1_Witness ==
    /\ \E f \in flushed : Successful(f) /\ f.by \in Accepts
    /\ \E f \in flushed : ~Successful(f) /\ f.by = "sweep"

\* C2: the accept call that brings a buffer to cache_num rows flushes it in
\* that same call, exactly once, with exactly those cache_num rows, and no
\* buffer holds cache_num rows except while that call is flushing it.
C2_ThresholdFlush ==
    /\ \A t \in Accepts :
           /\ pc[t] = "save" =>
                  /\ fl[t].key = CacheKey(item[t])
                  /\ Len(Buffer(fl[t].key)) = cache_num
                  /\ Buffer(fl[t].key)[cache_num] = t
                  /\ cache_count[t] = cache_num
                  /\ {f \in flushed : f.by = t} = {}
           /\ Cardinality({f \in flushed : f.by = t}) <= 1
           /\ pc[t] \in {"done", "raised"} =>
                  (cache_count[t] >= cache_num <=> \E f \in flushed : f.by = t)
    /\ \A f \in flushed :
           f.by \in Accepts =>
               /\ Len(f.batch) = cache_num
               /\ f.batch[cache_num] = f.by
               /\ f.key = CacheKey(item[f.by])
               /\ \A i \in DOMAIN f.res :
                      f.res[i].rows # <<>> => f.res[i].rows = f.batch
    /\ \A k \in Keys :
           /\ Len(Buffer(k)) <= cache_num
           /\ Len(Buffer(k)) = cache_num =>
                  \E t \in Accepts : pc[t] = "save" /\ fl[t].key = k

C2_Witness ==
    \E f \in flushed :
        /\ f.by \in Accepts
        /\ Successful(f)
        /\ Buffer(f.key) # <<>>

\* C3: at most one task is inside a lock-protected section; a buffer changes
\* only in a step of the task that holds the lock (while a flush is in
\* progress the only change is that flush clearing its own group) or in a
\* step that starts with the lock free.
C3_MutualExclusion ==
    /\ [](Cardinality(InSaveTasks) <= 1 /\ (InSaveTasks # {} => locked))
    /\ [][/\ \A u \in InSaveTasks :
                 item_cache' # item_cache =>
                     /\ fl'[u] # fl[u]
                     /\ item_cache' = [item_cache EXCEPT ![fl[u].key] = <<>>]
          /\ (InSaveTasks = {} /\ item_cache' # item_cache) => ~locked]_vars

C3_Witness ==
    /\ \E t \in Tasks : pc[t] = "save" /\ fl[t].stage = "commit"
    /\ Len(waiters) >= 2
    /\ \E t \in Accepts : pc[t] = "wait"

\* C4: in every flush that was not cancelled each alias of the group is
\* attempted exactly once, in order, whatever happened at the aliases before
\* it: a failure at one alias does not abort the remaining aliases.
C4_EveryAliasAttempted ==
    \A f \in flushed :
        f.end # "cancelled" =>
            /\ Len(f.res) = Len(db_alias_cache[f.key])
            /\ \A i \in DOMAIN f.res : f.res[i].alias = db_alias_cache[f.key][i]

\* C5: every flush attempt, however it ends, leaves the whole buffer of its
\* group empty, and its rows are never handed to the writer again: they are in
\* no buffer, in no other flush and in no executemany call in progress.
C5_ClearedAndNeverRetried ==
    /\ [][\A f \in flushed' \ flushed : item_cache'[f.key] = <<>>]_vars
    /\ [](\A f \in flushed :
              /\ \A k \in Keys : SeqToSet(f.batch) \cap SeqToSet(Buffer(k)) = {}
              /\ \A t \in InSaveTasks : SeqToSet(f.batch) \cap SeqToSet(fl[t].rows) = {}
              /\ \A g \in flushed :
                     g # f =>
                         \A i \in DOMAIN g.res :
                             SeqToSet(f.batch) \cap SeqToSet(g.res[i].rows) = {})

C5_Witness ==
    \E f, g \in flushed :
        /\ f.end = "raised"
        /\ g # f
        /\ g.key = f.key
        /\ g.batch # <<>>

\* a record process_item has to accept: it names a table and its write mode
\* is one SqlFormat has a method for
Valid(it) == ~TableMissing(it) /\ Supported(InsertType(it))

Admitted == SeqToSet(admitted)

\* C6: a downstream write failure never surfaces to the producer: no
\* process_item call whose valid record was admitted ends with an exception.
C6_AcceptNeverRaises ==
    \A t \in Accepts : (Valid(item[t]) /\ t \in Admitted) => pc[t] # "raised"

InBuffer(r) == \E k \in DOMAIN item_cache : r \in SeqToSet(item_cache[k])

\* C7: while the pipeline is open, a row that sits in a buffer is eventually
\* taken out of it by a flush (the periodic sweep, when its group stays below
\* the threshold), unless shutdown is requested first.
C7_EventuallySwept ==
    \A r \in Accepts :
        (InBuffer(r) /\ pc["close"] = "idle")
            ~> (pc["close"] # "idle" \/ \E f \in flushed : r \in SeqToSet(f.batch))

\* C8: until shutdown is requested the periodic task is alive: sleeping,
\* waiting for the lock or sweeping; every sweep, failed flush or not, is
\* followed by the next one.
C8_SweepAlwaysRescheduled ==
    (pc["sweep"] # "none" /\ pc["close"] = "idle")
        => pc["sweep"] \in {"sleep", "wait", "save"}

CloseEnded == pc["close"] \in {"done", "raised"}

\* C9: when the shutdown drain ends every group is empty, the drain flushed
\* no group twice and no empty group, and afterwards the periodic task starts
\* no sweep, performs no flush and creates no successor.
C9_DrainOnceThenQuiet ==
    /\ [][(~CloseEnded /\ CloseEnded')
              => \A k \in DOMAIN item_cache' : item_cache'[k] = <<>>]_vars
    /\ [](\A f \in flushed :
              f.by = "close" =>
                  /\ f.batch # <<>>
                  /\ \A g \in flushed : (g.by = "close" /\ g.key = f.key) => g = f)
    /\ [][CloseEnded =>
              /\ pc'["sweep"] \in {pc["sweep"], "cancelled"}
              /\ fl'["sweep"] = fl["sweep"]
              /\ {f \in flushed' : f.by = "sweep"} = {f \in flushed : f.by = "sweep"}]_vars

\* C10: when close returns every buffer is empty, every process_item call
\* made before close_spider, waiting for the lock or not, has been through
\* its admission, and the row of every such call that was admitted is in the
\* batch of some flush attempt.
C10_NothingLostOnClose ==
    [][(pc["close"] # "done" /\ pc'["close"] = "done")
           => /\ \A k \in DOMAIN item_cache' : item_cache'[k] = <<>>
              /\ \A t \in pre_close' :
                     /\ pc'[t] # "wait"
                     /\ pc'[t] = "raised" \/ t \in Admitted'
                     /\ t \in Admitted' => \E f \in flushed' : t \in SeqToSet(f.batch)]_vars

C10_Witness ==
    /\ pc["close"] = "done"
    /\ \E t \in pre_wait : \E f \in flushed : f.by = "close" /\ t \in SeqToSet(f.batch)

\* C11: cancellation never interrupts a sweep in the middle of a flush: no
\* _save call is ended by the CancelledError of cancel(), so no buffer is
\* cleared by a flush that cancellation cut short before its last alias.
C11_CancelNeverInterruptsFlush ==
    /\ must_cancel => pc["sweep"] # "save"
    /\ \A f \in flushed : f.end # "cancelled"

\* C12: when the shutdown drain ends after one of its flushes failed, every
\* group is empty (the remaining non-empty groups were flushed too), close
\* returned, the lock is free and the periodic task is cancelled or finished.
C12_DrainCompletesAfterFailure ==
    [][(~CloseEnded /\ CloseEnded' /\ \E f \in flushed' : f.by = "close" /\ ~Successful(f))
           => /\ \A k \in DOMAIN item_cache' : item_cache'[k] = <<>>
              /\ pc'["close"] = "done"
              /\ ~locked'
              /\ must_cancel' \/ pc'["sweep"] \in {"cancelled", "dead"}]_vars

\* a process_item call that has been through parse_item_to_cache
Parsed(t) == pc[t] \notin {"idle", "wait"}

\* C13: every process_item call with a write mode SqlFormat has no method for
\* fails at admission and buffers no row, the first call and every later one;
\* a group without a statement never holds rows and is never flushed.
C13_UnsupportedModeNeverBuffered ==
    /\ \A t \in Accepts :
           (Parsed(t) /\ ~TableMissing(item[t]) /\ ~Supported(InsertType(item[t])))
               => pc[t] = "raised" /\ t \notin Admitted
    /\ \A k \in DOMAIN item_cache : k \notin DOMAIN insert_sql_cache => item_cache[k] = <<>>
    /\ \A f \in flushed : f.key \in DOMAIN insert_sql_cache

\* C14: the step in which parse_item_to_cache gets a record without a table
\* (the attribute absent or None) ends the call with an exception, creates no
\* group, appends no row and leaves every buffer and every dict of the
\* existing groups as it was; no group ever has such a table.
C14_NoTableFailsBeforeBuffering ==
    /\ [][\A t \in Accepts :
              (~Parsed(t) /\ Parsed(t)' /\ TableMissing(item'[t]))
                  => /\ pc'[t] = "raised"
                     /\ item_cache' = item_cache
                     /\ metaVars' = metaVars
                     /\ appended' = appended
                     /\ admitted' = admitted
                     /\ flushed' = flushed
                     /\ ~locked']_vars
    /\ [](\A k \in DOMAIN table_cache : table_cache[k] \notin {Absent, None})

C14_Witness ==
    /\ \E t \in Accepts : pc[t] = "raised" /\ item[t].save_table_name = None
    /\ \E t \in Accepts : pc[t] = "raised" /\ item[t].save_table_name = Absent
    /\ \E k \in DOMAIN item_cache : item_cache[k] # <<>>

\* C15: process_item returns the record unchanged: the dict a call returns
\* has the keys and values of the dict it was given, control attributes
\* included.
C15_ReturnsRecordUnchanged ==
    \A t \in Accepts : pc[t] = "done" => returned[t] = item[t]

\* the shape of a record: table, ordered fields, update fields, write mode
Shape(it) == <<it.save_table_name, Fields(it), UpdateFields(it), InsertType(it)>>

\* the group the row of call t was appended to
GroupOf(t) == CHOOSE k \in Keys : <<k, t>> \in appended

IndexIn(s, x) == CHOOSE i \in DOMAIN s : s[i] = x

\* the rows of s are admitted rows, in the order of their admission
InAdmissionOrder(s) ==
    \A i, j \in DOMAIN s :
        /\ s[i] \in Admitted
        /\ i < j => IndexIn(admitted, s[i]) < IndexIn(admitted, s[j])

\* C16: admitted records of one shape are in one group; every buffer, every
\* batch of a flush and every row list given to executemany holds its rows in
\* admission order, and executemany gets the batch whole.
C16_SameShapeSameGroupInOrder ==
    /\ \A t \in Admitted :
           /\ \E k \in Keys : <<k, t>> \in appended
           /\ \A k \in Keys : <<k, t>> \in appended => k = GroupOf(t)
    /\ \A t, u \in Admitted : Shape(item[t]) = Shape(item[u]) => GroupOf(t) = GroupOf(u)
    /\ \A k \in DOMAIN item_cache :
           /\ InAdmissionOrder(item_cache[k])
           /\ \A i \in DOMAIN item_cache[k] : GroupOf(item_cache[k][i]) = k
    /\ \A t \in InSaveTasks :
           /\ InAdmissionOrder(fl[t].rows)
           /\ fl[t].rows # <<>> => fl[t].rows = item_cache[fl[t].key]
    /\ \A f \in flushed :
           /\ InAdmissionOrder(f.batch)
           /\ \A i \in DOMAIN f.batch : GroupOf(f.batch[i]) = f.key
           /\ \A i \in DOMAIN f.res : f.res[i].rows # <<>> => f.res[i].rows = f.batch

C16_Witness ==
    \E f \in flushed :
        /\ Len(f.batch) = 2
        /\ Successful(f)
        /\ Len(f.res) = 2
        /\ item[f.batch[1]] # item[f.batch[2]]

\* C17: once a group exists its table name, field list, alias list and
\* statement never change and the group is never removed: a step changes
\* nothing of it but its row buffer.
C17_GroupMetadataImmutable ==
    [][\A k \in DOMAIN fields_cache :
           /\ k \in DOMAIN fields_cache' /\ fields_cache'[k] = fields_cache[k]
           /\ k \in DOMAIN table_cache' /\ table_cache'[k] = table_cache[k]
           /\ k \in DOMAIN db_alias_cache' /\ db_alias_cache'[k] = db_alias_cache[k]
           /\ k \in DOMAIN item_cache'
           /\ IF k \in DOMAIN insert_sql_cache
              THEN k \in DOMAIN insert_sql_cache' /\ insert_sql_cache'[k] = insert_sql_cache[k]
              ELSE k \notin DOMAIN insert_sql_cache'
           /\ Len(SelectSeq(cache_keys', LAMBDA x : x = k)) = 1]_vars

C17_Witness ==
    \E t \in Accepts :
        /\ pc[t] = "done"
        /\ CacheKey(item[t]) \in DOMAIN db_alias_cache
        /\ DbAlias(item[t]) # db_alias_cache[CacheKey(item[t])]
        /\ \E f \in flushed : f.key = CacheKey(item[t]) /\ t \notin SeqToSet(f.batch)
        /\ insert_sql_cache[CacheKey(item[t])]
               = "INSERT INTO t (ab,c) VALUES (%s,%s)"

SweepAlive == pc["sweep"] \in {"sleep", "wait", "save"}

\* C18: sweeps never overlap and are not fixed-rate: at most one periodic
\* task exists; while it sweeps it holds the lock and no other task is in a
\* flush; it asks for the lock only when its sleep is over; and when a sweep
\* ends the lock is free and the task sleeps again, or is finished.
C18_SweepsNeverOverlap ==
    /\ [](/\ ptasks <= 1
          /\ ptasks = IF SweepAlive THEN 1 ELSE 0
          /\ pc["sweep"] = "save" =>
                 /\ locked
                 /\ InSaveTasks = {"sweep"}
                 /\ fl["sweep"].stage # "none"
          /\ pc["sweep"] # "save" => fl["sweep"] = NoFlush)
    /\ [][(pc["sweep"] \notin {"wait", "save"} /\ pc'["sweep"] \in {"wait", "save"})
              => pc["sweep"] = "sleep"]_vars
    /\ [][(pc["sweep"] = "save" /\ pc'["sweep"] # "save")
              => /\ ~locked'
                 /\ pc'["sweep"] \in {"sleep", "dead", "cancelled"}]_vars

C18_Witness ==
    /\ pc["sweep"] = "wait"
    /\ \E f \in flushed : f.by = "sweep" /\ f.end = "returned"

\* the tasks that hold the connection of the alias they are at
Holding == {t \in InSaveTasks : fl[t].stage \in {"exec", "commit", "rollback"}}

\* C19: at most one scoped connection is held at any moment, by the task
\* that is at an alias after its acquisition, and none between flushes or
\* while the next alias is being acquired; the aliases of a flush are the
\* aliases of its group in list order, all of them when the flush returned.
C19_OneConnectionAtATime ==
    /\ Cardinality(conns) <= 1
    /\ conns = {ConnOf(t) : t \in Holding}
    /\ InSaveTasks = {} => conns = {}
    /\ \A t \in InSaveTasks :
           /\ Len(fl[t].res) = fl[t].ai - 1
           /\ fl[t].ai <= Len(db_alias_cache[fl[t].key])
           /\ \A i \in DOMAIN fl[t].res : fl[t].res[i].alias = db_alias_cache[fl[t].key][i]
    /\ \A f \in flushed :
           /\ Len(f.res) <= Len(db_alias_cache[f.key])
           /\ \A i \in DOMAIN f.res : f.res[i].alias = db_alias_cache[f.key][i]
           /\ f.end = "returned" => Len(f.res) = Len(db_alias_cache[f.key])

C19_Witness ==
    \E t \in InSaveTasks :
        /\ fl[t].ai = 2
        /\ fl[t].stage = "commit"
        /\ conns = {[task |-> t, alias |-> "b"]}
        /\ fl[t].res[1].alias = "a"

\* C20: every alias attempt that acquired its connection ended with a
\* successful commit or with a rollback, whatever ended it: success,
\* execution error, commit error or cancellation.
C20_CommitOrRollbackOnEveryExit ==
    \A f \in flushed :
        \A i \in DOMAIN f.res :
            f.res[i].at # "acq" =>
                \/ f.res[i].at = "commit" /\ f.res[i].out = "ok"
                \/ f.res[i].at = "rollback" /\ f.res[i].out # "cancelled"

\* C21: whenever the lock is free every buffer holds fewer rows than the
\* threshold, which is at least 1.
C21_BelowThresholdWhenLockFree ==
    /\ cache_num >= 1
    /\ ~locked => \A k \in DOMAIN item_cache : Len(item_cache[k]) < cache_num

C21_Witness ==
    /\ ~locked
    /\ \E f \in flushed : f.by \in Accepts /\ f.end = "raised"
    /\ \E k \in DOMAIN item_cache : Len(item_cache[k]) = cache_num - 1

\* the positions in parsed of the records with cache_key k
ParsedAt(k) == {i \in DOMAIN parsed : CacheKey(item[parsed[i]]) = k}

\* the first record that came with cache_key k
FirstRecord(k) == parsed[CHOOSE i \in ParsedAt(k) : \A j \in ParsedAt(k) : i <= j]

\* C22: the alias list is no part of the key: admitted records of one shape
\* are buffered under one key whatever aliases they name, the alias list of a
\* group is the one of the first record that came with its key, and every
\* connection a flush asks for or holds is for an alias of that list.
C22_AliasListOfFirstRecord ==
    /\ \A t, u \in Admitted :
           Shape(item[t]) = Shape(item[u])
               => \E k \in DOMAIN item_cache : <<k, t>> \in appended /\ <<k, u>> \in appended
    /\ \A k \in DOMAIN db_alias_cache :
           /\ ParsedAt(k) # {}
           /\ db_alias_cache[k] = DbAlias(item[FirstRecord(k)])
    /\ \A f \in flushed :
           \A i \in DOMAIN f.res :
               f.res[i].alias \in SeqToSet(DbAlias(item[FirstRecord(f.key)]))
    /\ \A c \in conns : c.alias \in SeqToSet(DbAlias(item[FirstRecord(fl[c.task].key)]))

C22_Witness ==
    \E f \in flushed :
        /\ Successful(f)
        /\ Len(f.batch) = 2
        /\ DbAlias(item[f.batch[2]]) = <<"a", "b">>
        /\ Len(f.res) = 1
        /\ f.res[1].alias = "b"

\* the row of call r has one value of its record for each field of the list,
\* in the order of the list
RowFollows(r, fields) ==
    /\ Len(built[r]) = Len(fields)
    /\ \A j \in DOMAIN fields :
           /\ fields[j] \in SeqToSet(Fields(item[r]))
           /\ built[r][j] = Value(r, fields[j])

\* C23: every row of a buffer, of a batch or of an executemany call follows
\* the field list of its group; and a record that comes to an existing group
\* with another field list is rejected with every buffer and dict unchanged,
\* or its row is appended and follows the field list of the group.
C23_RowsFollowGroupFields ==
    /\ [](/\ \A k \in DOMAIN item_cache :
                 \A i \in DOMAIN item_cache[k] : RowFollows(item_cache[k][i], fields_cache[k])
          /\ \A f \in flushed :
                 \A i \in DOMAIN f.batch : RowFollows(f.batch[i], fields_cache[f.key])
          /\ \A t \in InSaveTasks :
                 \A i \in DOMAIN fl[t].rows : RowFollows(fl[t].rows[i], fields_cache[fl[t].key]))
    /\ [][\A t \in Accepts :
              LET k == CacheKey(item'[t])
              IN  (/\ ~Parsed(t) /\ Parsed(t)'
                   /\ ~TableMissing(item'[t])
                   /\ k \in DOMAIN fields_cache
                   /\ fields_cache[k] # Fields(item'[t]))
                      => \/ /\ pc'[t] = "raised"
                            /\ item_cache' = item_cache
                            /\ metaVars' = metaVars
                            /\ admitted' = admitted
                            /\ built' = built
                         \/ /\ pc'[t] # "raised"
                            /\ item_cache' = [item_cache EXCEPT ![k] = Append(@, t)]
                            /\ metaVars' = metaVars
                            /\ Len(built'[t]) = Len(fields_cache[k])
                            /\ \A j \in DOMAIN fields_cache[k] :
                                   built'[t][j] = Value(t, fields_cache[k][j])]_vars

C23_Witness ==
    /\ \E k \in DOMAIN item_cache :
           \E i \in DOMAIN item_cache[k] :
               /\ Fields(item[item_cache[k][i]]) = <<"ab", "c">>
               /\ fields_cache[k] = <<"ab">>
    /\ \E t \in Accepts :
           /\ pc[t] = "raised"
           /\ Fields(item[t]) = <<"a", "bc">>
           /\ t \notin Admitted

====
